---------------------------- MODULE Spec2Model ----------------------------
(***************************************************************************)
(* The geocoding cache and resolution pipeline of map-this.                *)
(*                                                                         *)
(*   - map8/map9 preprocess_locations.py: the threaded pipeline over the   *)
(*     sqlite table "locations" (process_location, process_batch,          *)
(*     preprocess_locations), and the readers create_map.py and            *)
(*     create_map2.py of map9_debugging;                                   *)
(*   - map11 preprocessing.py: geocode_location_with_retry over the table  *)
(*     "geocoded_locations";                                               *)
(*   - feature_10_final.py: approximate_missing_locations.                 *)
(*                                                                         *)
(* A text is modelled as the sequence of the pieces an f-string joins      *)
(* with ", " (<<"Colaba", "Mumbai", "MH", "India">>).  Time is counted in   *)
(* half seconds.  Coordinates of the approximation pass are exact          *)
(* rationals; float rounding is not modelled.                              *)
(***************************************************************************)
EXTENDS Integers, Sequences, FiniteSets, TLC

VARIABLES
    \* ---- every script
    script,          \* which script runs: "map9", "map11", "approx", ...
    mainpc,          \* main thread: "wait", "done", "crashed"
    run,             \* which run of the script this is (1, 2, ...)
    runRequests,     \* the texts sent to the geocoder in this run
    runFailed,       \* the texts the geocoder failed on in this run
    warm,            \* the texts with a successful entry when this run started
    \* ---- map8/map9 preprocess_locations
    states,          \* df['State/UT Name'].dropna().unique()
    districts,       \* (District, State) pairs, both present
    stations,        \* (Police Station, District, State) triples, all present
    max_workers,
    batch_size,
    here_api_key,
    locations,       \* list(locations)
    pending,         \* batches submitted to the executor and not yet started
    pc,              \* per worker thread: where it is in process_batch
    wbatch,          \* per worker thread: the rest of its batch
    wres,            \* per worker thread: (lat, lon) and the geocoder's outcome
    checkHit,        \* per worker thread: a successful row was there at the cache check
    store,           \* table locations: its rows
    progress_queue,  \* number of units in the queue
    completed,
    summary,         \* the statistics printed, or None
    lookup,          \* the last get_coordinates of a map script, or None
    \* ---- map11 preprocessing.py
    queries,         \* data['location_query'], one text per row
    tpc,             \* per row: where its geocode_location_with_retry call is
    attempt,         \* per row: the loop variable attempt
    tresult,         \* per row: the (lat, lng) returned
    thit,            \* per row: the table held the query at the last cache check
    elapsed,         \* per row: time slept since the last rate-limit answer
    nreq,            \* per row: requests issued by the call
    wrote,           \* per row: the call ran cache_lat_long
    cache11,         \* table geocoded_locations: its rows
    sem,             \* holders of the semaphore
    sinceLastReq,    \* time since the last request of any thread (-1: none yet)
    \* ---- approximate_missing_locations
    crime_data,      \* the data frame, changed in place
    original,        \* the data frame as it was passed in
    index,           \* the row the loop is at
    \* ---- map7_Geocoding.py
    calls7,          \* the get_coordinates calls of create_crime_map, in order
    call7,           \* the call that runs
    try7,            \* the place of the call in locations_to_try
    markers7,        \* what the calls so far returned
    \* ---- map8 GeocodingService.geocode
    batch8,          \* the location strings geocode is called with, in order
    results8,        \* what the calls so far returned, and after how many tries
    tries8,          \* calls of Nominatim.geocode made for the location so far
    invocations8     \* times the backoff wrapper has entered geocode for it

sharedVars == <<script, mainpc, run, runRequests, runFailed, warm>>

inputVars == <<states, districts, stations, max_workers, batch_size, here_api_key>>

pipeVars == <<locations, pending, pc, wbatch, wres, checkHit, store,
              progress_queue, completed, summary, lookup>>

retryVars == <<queries, tpc, attempt, tresult, thit, elapsed, nreq,
               wrote, cache11, sem, sinceLastReq>>

approxVars == <<crime_data, original, index>>

map7Vars == <<calls7, call7, try7, markers7>>

map8Vars == <<batch8, results8, tries8, invocations8>>

vars == <<sharedVars, inputVars, pipeVars, retryVars, approxVars, map7Vars,
         map8Vars>>

-----------------------------------------------------------------------------
(* Bounds *)
MaxRows == 2
MaxWorkers == 2
MaxBatch == 2
MaxRuns == 2
MaxQueries == 2

MaxRecords == 4

MaxCalls == 3

MaxTasks == 6

\* Constants of map11/preprocessing.py; RATE_LIMIT is 1.5 s, in half seconds.
RATE_LIMIT == 3
MAX_PARALLEL_REQUESTS == 5
RETRY_LIMIT == 5

\* An optional value: None, or Some(v).
None == <<>>
Some(v) == <<v>>
NaN == "NaN"

StateNames == {"MH"}
DistrictNames == {"Mumbai"}
StationNames == {"Colaba"}

\* The rows a CSV file can hold: every field may be missing.
RowSpace == [state : StateNames \cup {NaN},
             district : DistrictNames \cup {NaN},
             station : StationNames \cup {NaN}]

Workers == 1..MaxWorkers

-----------------------------------------------------------------------------
(* Helpers *)

Range(s) == {s[i] : i \in DOMAIN s}

\* The sequences that list the set S once each: the orders list(set) can give.
Perms(S) == {p \in [1..Cardinality(S) -> S] : Range(p) = S}

Min(a, b) == IF a < b THEN a ELSE b

-----------------------------------------------------------------------------
(* Location Key Builder *)

TokenCode(t) ==
    CASE t = "" -> 1
      [] t = "India" -> 2
      [] t = "MH" -> 3
      [] t = "Mumbai" -> 4
      [] t = "Colaba" -> 5
      [] OTHER -> 6

\* hashlib.md5(location_string.encode()).hexdigest(): a digest of the text,
\* here a positional code of its pieces (no two texts of the model collide).
RECURSIVE Digest(_, _)
Digest(s, h) == IF s = <<>> THEN h ELSE Digest(Tail(s), h * 7 + TokenCode(Head(s)))

get_location_hash(location_string) == Digest(location_string, 0)

StateString(state) == <<state, "India">>
DistrictString(district, state) == <<district, state, "India">>
StationString(ps, district, state) == <<ps, district, state, "India">>

\* lines 171-190 of preprocess_locations: the set of unique location strings.
ExtractLocations(sts, dis, stn) ==
    {StateString(s) : s \in sts}
      \cup {DistrictString(d[1], d[2]) : d \in dis}
      \cup {StationString(p[1], p[2], p[3]) : p \in stn}

\* dropna / drop_duplicates projections of the data frame
DfStates(df) == {r.state : r \in {x \in df : x.state # NaN}}
DfDistricts(df) ==
    {<<r.district, r.state>> : r \in {x \in df : x.state # NaN /\ x.district # NaN}}
DfStations(df) ==
    {<<r.station, r.district, r.state>> :
        r \in {x \in df : x.state # NaN /\ x.district # NaN /\ x.station # NaN}}

\* locations[i:i + batch_size] for i in range(0, len(locations), batch_size)
Batches(locs, size) ==
    [k \in 1..((Len(locs) + size - 1) \div size) |->
        SubSeq(locs, (k - 1) * size + 1, Min(k * size, Len(locs)))]

-----------------------------------------------------------------------------
(* Persistent Cache Store: table locations *)

\* Two faulty lookups, against which the cache properties are tried: one
\* that never finds a row, one that forgets "AND success = 1".
SelectNever(st, h) == None

SelectAnyRow(st, h) ==
    IF \E r \in st : r.location_hash = h
    THEN LET r == CHOOSE x \in st : x.location_hash = h
         IN <<r.latitude, r.longitude>>
    ELSE None

\* SELECT latitude, longitude FROM locations WHERE location_hash = ? AND success = 1
\* and fetchone(): a row that matches, or None.
SelectSuccess(st, h) ==
    IF \E r \in st : r.location_hash = h /\ r.success
    THEN LET r == CHOOSE x \in st : x.location_hash = h /\ x.success
         IN <<r.latitude, r.longitude>>
    ELSE None

\* A faulty counter that forgets the row it replaces, against which the
\* attempts properties are tried.
AttemptsReset(st, h) == 1

\* COALESCE((SELECT attempts + 1 FROM locations WHERE location_hash = ?), 1)
NextAttempts(st, h) ==
    IF \E r \in st : r.location_hash = h
    THEN (CHOOSE x \in st : x.location_hash = h).attempts + 1
    ELSE 1

\* A plain INSERT on a table that would not have the primary key: the row is
\* added next to the rows the hash already has.
InsertPlain(st, h, location_string, lat, lon, success, time) ==
    st \cup {[location_hash |-> h,
              location_string |-> location_string,
              latitude |-> lat,
              longitude |-> lon,
              attempts |-> Cardinality({r \in st : r.location_hash = h}) + 1,
              last_attempt |-> time,
              success |-> success,
              timestamp |-> time]}

\* INSERT OR REPLACE INTO locations (...), on the PRIMARY KEY location_hash
\* (line 89): the rows of the hash are deleted and the new row is inserted;
\* the column timestamp takes its default, the current time.
InsertOrReplace(st, h, location_string, lat, lon, success, time) ==
    {r \in st : r.location_hash # h}
      \cup {[location_hash |-> h,
              location_string |-> location_string,
              latitude |-> lat,
              longitude |-> lon,
              attempts |-> NextAttempts(st, h),
              last_attempt |-> time,
              success |-> success,
              timestamp |-> time]}

\* The table holds a row of this text with success = 1 (read off the rows,
\* not through the hash).
HasSuccess(st, location_string) ==
    \E r \in st : r.location_string = location_string /\ r.success

EmptyStore == {}

-----------------------------------------------------------------------------
(* Rate-Limited Geocoding Client: HereGeocoder.geocode of map9,            *)
(* GeocodingService.geocode of map8                                        *)

\* The position the remote service holds for a location (items[0].position):
\* one per location, that of a district outside the valid ranges of a
\* latitude and a longitude.
ServicePosition(location_string) ==
    CASE Len(location_string) = 2 -> <<19, 75>>
      [] Len(location_string) = 3 -> <<95, 200>>
      [] OTHER -> <<18, 72>>

\* What geocode returns for each outcome of the request: the position of the
\* first item, or (None, None) when there is no item and (None, None), with
\* the error logged, when the request raised.
GeocodeAnswers(location_string) ==
    {[lat |-> Some(ServicePosition(location_string)[1]),
      lon |-> Some(ServicePosition(location_string)[2]),
      outcome |-> "found"],
     [lat |-> None, lon |-> None, outcome |-> "notfound"],
     [lat |-> None, lon |-> None, outcome |-> "error"]}

NoAnswer == [lat |-> None, lon |-> None, outcome |-> "none"]

-----------------------------------------------------------------------------
(* preprocess_locations of map8/map9 *)

\* Lines 194-206: the progress queue, the batches, the executor.
StartRun(locs, size) ==
    /\ pending' = Batches(locs, size)
    /\ pc' = [w \in Workers |-> "idle"]
    /\ wbatch' = [w \in Workers |-> <<>>]
    /\ wres' = [w \in Workers |-> NoAnswer]
    /\ checkHit' = [w \in Workers |-> FALSE]
    /\ progress_queue' = 0
    /\ completed' = 0
    /\ summary' = None
    /\ lookup' = None

\* The variables of a script that does not run.
IdlePipeline ==
    /\ states = {}
    /\ districts = {}
    /\ stations = {}
    /\ max_workers = 1
    /\ batch_size = 1
    /\ here_api_key = None
    /\ locations = <<>>
    /\ store = EmptyStore
    /\ pending = <<>>
    /\ pc = [w \in Workers |-> "idle"]
    /\ wbatch = [w \in Workers |-> <<>>]
    /\ wres = [w \in Workers |-> NoAnswer]
    /\ checkHit = [w \in Workers |-> FALSE]
    /\ progress_queue = 0
    /\ completed = 0
    /\ summary = None
    /\ lookup = None

IdleApprox ==
    /\ crime_data = <<>>
    /\ original = <<>>
    /\ index = 0

IdleMap7 ==
    /\ calls7 = <<>>
    /\ call7 = 0
    /\ try7 = 0
    /\ markers7 = <<>>

IdleMap8 ==
    /\ batch8 = <<>>
    /\ results8 = <<>>
    /\ tries8 = 0
    /\ invocations8 = 0

IdleRetry ==
    /\ queries = <<>>
    /\ tpc = <<>>
    /\ attempt = <<>>
    /\ tresult = <<>>
    /\ thit = <<>>
    /\ elapsed = <<>>
    /\ nreq = <<>>
    /\ wrote = <<>>
    /\ cache11 = EmptyStore
    /\ sem = 0
    /\ sinceLastReq = -1

InitPipeline ==
    /\ script = "map9"
    /\ IdleRetry
    /\ IdleApprox
    /\ IdleMap7
    /\ IdleMap8
    /\ \E df \in {d \in SUBSET RowSpace : Cardinality(d) <= MaxRows} :
         /\ states = DfStates(df)
         /\ districts = DfDistricts(df)
         /\ stations = DfStations(df)
    /\ max_workers \in 1..MaxWorkers
    /\ batch_size \in 1..MaxBatch
    /\ here_api_key = Some("KEY")
    /\ locations \in Perms(ExtractLocations(states, districts, stations))
    /\ store = EmptyStore
    /\ run = 1
    /\ mainpc = "wait"
    /\ runRequests = {}
    /\ runFailed = {}
    /\ warm = {}
    /\ pending = Batches(locations, batch_size)
    /\ pc = [w \in Workers |-> "idle"]
    /\ wbatch = [w \in Workers |-> <<>>]
    /\ wres = [w \in Workers |-> NoAnswer]
    /\ checkHit = [w \in Workers |-> FALSE]
    /\ progress_queue = 0
    /\ completed = 0
    /\ summary = None
    /\ lookup = None

\* A thread of the executor takes the next submitted batch.
TakeBatch(w) ==
    /\ script = "map9"
    /\ w <= max_workers
    /\ pc[w] = "idle"
    /\ pending # <<>>
    /\ wbatch' = [wbatch EXCEPT ![w] = Head(pending)]
    /\ pending' = Tail(pending)
    /\ pc' = [pc EXCEPT ![w] = "check"]
    /\ UNCHANGED <<retryVars, approxVars, map7Vars, map8Vars>>
    /\ UNCHANGED <<sharedVars, inputVars, locations, wres, checkHit, store,
                   progress_queue, completed, summary, lookup>>

\* process_location, lines 118-132: the cache check.
CacheCheck(w) ==
    /\ script = "map9"
    /\ pc[w] = "check"
    /\ LET location_string == Head(wbatch[w])
           result == SelectSuccess(store, get_location_hash(location_string))
       IN /\ checkHit' = [checkHit EXCEPT ![w] = HasSuccess(store, location_string)]
          /\ pc' = [pc EXCEPT ![w] = IF result # None THEN "put" ELSE "geocode"]
    /\ UNCHANGED <<retryVars, approxVars, map7Vars, map8Vars>>
    /\ UNCHANGED <<sharedVars, inputVars, locations, pending, wbatch, wres, store,
                   progress_queue, completed, summary, lookup>>

\* process_location, lines 134-136: the request to the geocoder.
Geocode(w) ==
    /\ script = "map9"
    /\ pc[w] = "geocode"
    /\ \E a \in GeocodeAnswers(Head(wbatch[w])) :
         /\ here_api_key = Some("") => a.outcome = "error"
         /\ wres' = [wres EXCEPT ![w] = a]
         /\ runFailed' = IF a.outcome = "found"
                         THEN runFailed
                         ELSE runFailed \cup {Head(wbatch[w])}
    /\ runRequests' = runRequests \cup {Head(wbatch[w])}
    /\ pc' = [pc EXCEPT ![w] = "write"]
    /\ UNCHANGED <<retryVars, approxVars, map7Vars, map8Vars>>
    /\ UNCHANGED <<script, mainpc, run, warm, inputVars, locations, pending,
                   wbatch, checkHit, store, progress_queue, completed, summary,
                   lookup>>

\* process_location, lines 136-149: the row is written and committed.
WriteBack(w) ==
    /\ script = "map9"
    /\ pc[w] = "write"
    /\ LET location_string == Head(wbatch[w])
           lat == wres[w].lat
           lon == wres[w].lon
           success == lat # None /\ lon # None
       IN store' = InsertOrReplace(store, get_location_hash(location_string),
                                   location_string, lat, lon, success, run)
    /\ pc' = [pc EXCEPT ![w] = "put"]
    /\ UNCHANGED <<retryVars, approxVars, map7Vars, map8Vars>>
    /\ UNCHANGED <<sharedVars, inputVars, locations, pending, wbatch, wres,
                   checkHit, progress_queue, completed, summary, lookup>>

\* process_batch, line 155: process_location has returned (its locals are
\* gone), the unit is put, and the loop steps to the next location.
PutProgress(w) ==
    /\ script = "map9"
    /\ pc[w] = "put"
    /\ progress_queue' = progress_queue + 1
    /\ wbatch' = [wbatch EXCEPT ![w] = Tail(wbatch[w])]
    /\ pc' = [pc EXCEPT ![w] = IF Tail(wbatch[w]) = <<>> THEN "idle" ELSE "check"]
    /\ wres' = [wres EXCEPT ![w] = NoAnswer]
    /\ checkHit' = [checkHit EXCEPT ![w] = FALSE]
    /\ UNCHANGED <<retryVars, approxVars, map7Vars, map8Vars>>
    /\ UNCHANGED <<sharedVars, inputVars, locations, pending, store, completed,
                   summary, lookup>>

\* preprocess_locations, lines 210-213: one turn of the progress loop.
MainGet ==
    /\ script = "map9"
    /\ mainpc = "wait"
    /\ completed < Len(locations)
    /\ progress_queue > 0
    /\ progress_queue' = progress_queue - 1
    /\ completed' = completed + 1
    /\ UNCHANGED <<retryVars, approxVars, map7Vars, map8Vars>>
    /\ UNCHANGED <<sharedVars, inputVars, locations, pending, pc, wbatch, wres,
                   checkHit, store, summary, lookup>>

CountRows(st, flag) == Cardinality({r \in st : r.success = flag})

\* A faulty end of the run, against which the waiting of the main thread is
\* tried: the statistics are printed without waiting for the workers.
MainFinishEarly ==
    /\ script = "map9"
    /\ mainpc = "wait"
    /\ locations # <<>>
    /\ mainpc' = "done"
    /\ summary' = Some([successful |-> CountRows(store, TRUE),
                        failed |-> CountRows(store, FALSE),
                        rate |-> 0])
    /\ UNCHANGED <<retryVars, approxVars, map7Vars, map8Vars>>
    /\ UNCHANGED <<script, run, runRequests, runFailed, warm, inputVars,
                   locations, pending, pc, wbatch, wres, checkHit, store,
                   progress_queue, completed, lookup>>

\* preprocess_locations, lines 214-231: the executor is shut down (every
\* thread has ended) and the statistics are printed; the success rate
\* divides by successful + failed.
MainFinish ==
    /\ script = "map9"
    /\ mainpc = "wait"
    /\ completed = Len(locations)
    /\ pending = <<>>
    /\ \A w \in Workers : pc[w] = "idle"
    /\ LET successful == CountRows(store, TRUE)
           failed == CountRows(store, FALSE)
       IN IF successful + failed = 0
          THEN /\ mainpc' = "crashed"
               /\ summary' = None
          ELSE /\ mainpc' = "done"
               /\ summary' = Some([successful |-> successful, failed |-> failed,
                                   rate |-> (successful * 100) \div (successful + failed)])
    /\ UNCHANGED <<retryVars, approxVars, map7Vars, map8Vars>>
    /\ UNCHANGED <<script, run, runRequests, runFailed, warm, inputVars,
                   locations, pending, pc, wbatch, wres, checkHit, store,
                   progress_queue, completed, lookup>>

\* The script is run again on the same CSV file against the table left by
\* the run before.
RunAgain ==
    /\ script = "map9"
    /\ mainpc \in {"done", "crashed"}
    /\ run < MaxRuns
    /\ run' = run + 1
    /\ mainpc' = "wait"
    /\ runRequests' = {}
    /\ runFailed' = {}
    /\ warm' = {l \in Range(locations) : HasSuccess(store, l)}
    /\ \E order \in Perms(Range(locations)) :
         /\ locations' = order
         /\ StartRun(order, batch_size)
    /\ UNCHANGED <<script, inputVars, store, retryVars, approxVars, map7Vars, map8Vars>>

-----------------------------------------------------------------------------
(* The map scripts of map9_debugging read the table *)

\* create_map.py, get_coordinates(location_string, cursor)
get_coordinates(st, location_string) ==
    LET result == SelectSuccess(st, get_location_hash(location_string))
    IN IF result # None THEN result ELSE <<None, None>>

\* create_map2.py, get_coordinates(state, police_station, cursor): the text
\* hashed is f"{police_station}, {state}".
get_coordinates2(st, state, police_station) ==
    LET result == SelectSuccess(st, get_location_hash(<<police_station, state>>))
    IN IF result # None THEN result ELSE <<None, None>>

\* The locations of the data frame, as (station, district, state) with NaN
\* for the levels a location does not have.
LocationKeys ==
    {<<NaN, NaN, s>> : s \in states}
      \cup {<<NaN, d[1], d[2]>> : d \in districts}
      \cup stations

\* The text preprocess_locations stored the location under.
WriterString(key) ==
    IF key[1] # NaN THEN StationString(key[1], key[2], key[3])
    ELSE IF key[2] # NaN THEN DistrictString(key[2], key[3])
    ELSE StateString(key[3])

\* create_map.py, generate_markers_js: lines 320, 352, 385.
ReadMap ==
    /\ script = "map9"
    /\ mainpc = "done"
    /\ \E key \in LocationKeys :
         lookup' = Some([reader |-> "create_map", key |-> key,
                         result |-> get_coordinates(store, WriterString(key))])
    /\ UNCHANGED <<retryVars, approxVars, map7Vars, map8Vars>>
    /\ UNCHANGED <<sharedVars, inputVars, locations, pending, pc, wbatch, wres,
                   checkHit, store, progress_queue, completed, summary>>

\* create_map2.py, generate_map_html: the state markers (the station is "")
\* and the station markers, grouped by state and station.
ReadMap2 ==
    /\ script = "map9"
    /\ mainpc = "done"
    /\ \E key \in {k \in LocationKeys : k[2] = NaN \/ k[1] # NaN} :
         lookup' = Some([reader |-> "create_map2", key |-> key,
                         result |-> get_coordinates2(store, key[3],
                                       IF key[1] = NaN THEN "" ELSE key[1])])
    /\ UNCHANGED <<retryVars, approxVars, map7Vars, map8Vars>>
    /\ UNCHANGED <<sharedVars, inputVars, locations, pending, pc, wbatch, wres,
                   checkHit, store, progress_queue, completed, summary>>

NextPipeline ==
    \/ \E w \in Workers : TakeBatch(w)
    \/ \E w \in Workers : CacheCheck(w)
    \/ \E w \in Workers : Geocode(w)
    \/ \E w \in Workers : WriteBack(w)
    \/ \E w \in Workers : PutProgress(w)
    \/ MainGet
    \/ MainFinish
    \/ RunAgain
    \/ ReadMap
    \/ ReadMap2

SpecPipeline == InitPipeline /\ [][NextPipeline]_vars

-----------------------------------------------------------------------------
(* preprocess_locations of map8/map9 with a store that can raise, and with *)
(* a process that can be killed                                            *)

\* process_location, lines 120-148, through get_connection, lines 72-80: a
\* sqlite3 call (connect, the SELECT, the INSERT, the commit) raises.  The
\* context manager rolls back and raises again; neither process_location nor
\* process_batch catches, so the call of process_batch ends there, with no
\* unit put for this location or for the rest of the batch.  The thread of
\* the pool stays and takes the next batch.
StoreError(w) ==
    /\ script = "map9"
    /\ pc[w] \in {"check", "write"}
    /\ wbatch' = [wbatch EXCEPT ![w] = <<>>]
    /\ pc' = [pc EXCEPT ![w] = "idle"]
    /\ wres' = [wres EXCEPT ![w] = NoAnswer]
    /\ checkHit' = [checkHit EXCEPT ![w] = FALSE]
    /\ UNCHANGED <<retryVars, approxVars, map7Vars, map8Vars>>
    /\ UNCHANGED <<sharedVars, inputVars, locations, pending, store,
                   progress_queue, completed, summary, lookup>>

\* The process is killed while preprocess_locations runs, here in its first
\* run on an empty table: its threads, its queue and its lists are gone, the
\* file locations.db keeps what was committed.
Kill ==
    /\ script = "map9"
    /\ mainpc = "wait"
    /\ run = 1
    /\ mainpc' = "killed"
    /\ pending' = <<>>
    /\ pc' = [w \in Workers |-> "idle"]
    /\ wbatch' = [w \in Workers |-> <<>>]
    /\ wres' = [w \in Workers |-> NoAnswer]
    /\ checkHit' = [w \in Workers |-> FALSE]
    /\ progress_queue' = 0
    /\ completed' = 0
    /\ runRequests' = {}
    /\ runFailed' = {}
    /\ UNCHANGED <<retryVars, approxVars, map7Vars, map8Vars>>
    /\ UNCHANGED <<script, run, warm, inputVars, locations, store, summary,
                   lookup>>

\* The script is started again after a kill, on the same CSV file.
Resume ==
    /\ script = "map9"
    /\ mainpc = "killed"
    /\ run < MaxRuns
    /\ run' = run + 1
    /\ mainpc' = "wait"
    /\ runRequests' = {}
    /\ runFailed' = {}
    /\ warm' = {l \in Range(locations) : HasSuccess(store, l)}
    /\ \E order \in Perms(Range(locations)) :
         /\ locations' = order
         /\ StartRun(order, batch_size)
    /\ UNCHANGED <<script, inputVars, store, retryVars, approxVars, map7Vars, map8Vars>>

NextStoreFaults ==
    \/ NextPipeline
    \/ \E w \in Workers : StoreError(w)

SpecStoreFaults == InitPipeline /\ [][NextStoreFaults]_vars

\* The same under fair scheduling: a thread of the executor that can take a
\* step takes one, and so does the main thread.  A store error is a fault:
\* it may happen, nothing makes it happen.
WorkerStep(w) ==
    \/ TakeBatch(w)
    \/ CacheCheck(w)
    \/ Geocode(w)
    \/ WriteBack(w)
    \/ PutProgress(w)

FairStoreFaults ==
    /\ SpecStoreFaults
    /\ \A w \in Workers : WF_vars(WorkerStep(w))
    /\ WF_vars(MainGet \/ MainFinish)

\* One run that may be killed, and the run that follows the kill.
NextKill ==
    \/ \E w \in Workers : TakeBatch(w)
    \/ \E w \in Workers : CacheCheck(w)
    \/ \E w \in Workers : Geocode(w)
    \/ \E w \in Workers : WriteBack(w)
    \/ \E w \in Workers : PutProgress(w)
    \/ MainGet
    \/ MainFinish
    \/ Kill
    \/ Resume

SpecKill == InitPipeline /\ [][NextKill]_vars

-----------------------------------------------------------------------------
(* The start of the script: the command line and the API key *)

\* What --api-key may be on the command line: not given, given as the empty
\* string, given as a key.
ApiKeys == {None, Some(""), Some("KEY")}

\* The process has started; nothing was read yet.
InitStartup ==
    /\ script = "map9"
    /\ IdleRetry
    /\ IdleApprox
    /\ IdleMap7
    /\ IdleMap8
    /\ \E df \in {d \in SUBSET RowSpace : Cardinality(d) <= MaxRows} :
         /\ states = DfStates(df)
         /\ districts = DfDistricts(df)
         /\ stations = DfStations(df)
    /\ max_workers \in 1..MaxWorkers
    /\ batch_size \in 1..MaxBatch
    /\ here_api_key \in ApiKeys
    /\ locations = <<>>
    /\ store = EmptyStore
    /\ run = 1
    /\ mainpc = "start"
    /\ runRequests = {}
    /\ runFailed = {}
    /\ warm = {}
    /\ pending = <<>>
    /\ pc = [w \in Workers |-> "idle"]
    /\ wbatch = [w \in Workers |-> <<>>]
    /\ wres = [w \in Workers |-> NoAnswer]
    /\ checkHit = [w \in Workers |-> FALSE]
    /\ progress_queue = 0
    /\ completed = 0
    /\ summary = None
    /\ lookup = None

\* __main__, lines 233-242, and preprocess_locations up to the submission
\* of the batches: parse_args exits when --api-key is not given (it is
\* required); any value given, the empty string included, is handed to
\* HereGeocoder as it is, and the run starts.
Main ==
    /\ script = "map9"
    /\ mainpc = "start"
    /\ IF here_api_key = None
       THEN /\ mainpc' = "usage"
            /\ UNCHANGED pipeVars
       ELSE /\ mainpc' = "wait"
            /\ \E order \in Perms(ExtractLocations(states, districts, stations)) :
                 /\ locations' = order
                 /\ StartRun(order, batch_size)
            /\ UNCHANGED store
    /\ UNCHANGED <<script, run, runRequests, runFailed, warm, inputVars,
                   retryVars, approxVars, map7Vars, map8Vars>>

NextStartup ==
    \/ Main
    \/ \E w \in Workers : TakeBatch(w)
    \/ \E w \in Workers : CacheCheck(w)
    \/ \E w \in Workers : Geocode(w)
    \/ \E w \in Workers : WriteBack(w)
    \/ \E w \in Workers : PutProgress(w)
    \/ MainGet
    \/ MainFinish

SpecStartup == InitStartup /\ [][NextStartup]_vars

-----------------------------------------------------------------------------
(* map11/preprocessing.py: geocode_location_with_retry and preprocess_data *)

\* The rows of the CSV file of map11: a station of a district, and a row
\* whose three columns are missing.
RowSpace11 ==
    {[state |-> "MH", district |-> "Mumbai", station |-> "Colaba"],
     [state |-> NaN, district |-> NaN, station |-> NaN]}

\* fillna('')
FillNa(v) == IF v = NaN THEN "" ELSE v

\* preprocess_data, lines 93-97: the query of a row.
LocationQuery(r) ==
    <<FillNa(r.station), FillNa(r.district), FillNa(r.state), "India">>

\* The positions the remote service may answer a query with.
Coords11 == {<<19, 73>>}

Outcomes11 ==
    {[kind |-> "found", lat |-> Some(c[1]), lng |-> Some(c[2])] : c \in Coords11}
      \cup {[kind |-> k, lat |-> None, lng |-> None] :
                k \in {"empty", "429", "httperr", "exception"}}

\* get_cached_lat_long
get_cached_lat_long(c, location_query) ==
    IF \E r \in c : r.location_query = location_query
    THEN LET r == CHOOSE x \in c : x.location_query = location_query
         IN <<r.latitude, r.longitude>>
    ELSE <<None, None>>

\* A faulty write that replaces the row of the query, against which the
\* properties of the table are tried.
cache_replace(c, location_query, latitude, longitude) ==
    {r \in c : r.location_query # location_query}
      \cup {[location_query |-> location_query,
              latitude |-> latitude,
              longitude |-> longitude]}

\* cache_lat_long: INSERT OR IGNORE on the UNIQUE column location_query.
cache_lat_long(c, location_query, latitude, longitude) ==
    IF \E r \in c : r.location_query = location_query
    THEN c
    ELSE c \cup {[location_query |-> location_query,
                  latitude |-> latitude,
                  longitude |-> longitude]}

RECURSIVE Pow2(_)
Pow2(n) == IF n = 0 THEN 1 ELSE 2 * Pow2(n - 1)

\* A faulty wait that grows by a fixed step, against which the retry policy
\* is tried.
LinearWait(a) == RATE_LIMIT * (a + 1)

\* line 78: wait_time = RATE_LIMIT * (2 ** attempt)
WaitTime(a) == RATE_LIMIT * Pow2(a)

\* for attempt in range(retries)
AttemptRange(retries) == 0..(retries - 1)

Tasks == DOMAIN queries

StartTasks(qs) ==
    /\ tpc' = [i \in DOMAIN qs |-> "queued"]
    /\ attempt' = [i \in DOMAIN qs |-> 0]
    /\ tresult' = [i \in DOMAIN qs |-> <<None, None>>]
    /\ thit' = [i \in DOMAIN qs |-> FALSE]
    /\ elapsed' = [i \in DOMAIN qs |-> 0]
    /\ nreq' = [i \in DOMAIN qs |-> 0]
    /\ wrote' = [i \in DOMAIN qs |-> FALSE]
    /\ sem' = 0
    /\ sinceLastReq' = -1

InitRetry ==
    /\ script = "map11"
    /\ IdlePipeline
    /\ IdleApprox
    /\ IdleMap7
    /\ IdleMap8
    /\ \E n \in 0..MaxQueries : \E rows \in [1..n -> RowSpace11] :
         queries = [i \in 1..n |-> LocationQuery(rows[i])]
    /\ tpc = [i \in DOMAIN queries |-> "queued"]
    /\ attempt = [i \in DOMAIN queries |-> 0]
    /\ tresult = [i \in DOMAIN queries |-> <<None, None>>]
    /\ thit = [i \in DOMAIN queries |-> FALSE]
    /\ elapsed = [i \in DOMAIN queries |-> 0]
    /\ nreq = [i \in DOMAIN queries |-> 0]
    /\ wrote = [i \in DOMAIN queries |-> FALSE]
    /\ cache11 = EmptyStore
    /\ sem = 0
    /\ sinceLastReq = -1
    /\ mainpc = "wait"
    /\ run = 1
    /\ runRequests = {}
    /\ runFailed = {}
    /\ warm = {}

\* executor.map, line 105: a thread of the pool takes the next row.
StartTask(i) ==
    /\ script = "map11"
    /\ tpc[i] = "queued"
    /\ \A j \in Tasks : j < i => tpc[j] # "queued"
    /\ Cardinality({j \in Tasks : tpc[j] \notin {"queued", "done"}}) < MAX_PARALLEL_REQUESTS
    /\ tpc' = [tpc EXCEPT ![i] = IF AttemptRange(RETRY_LIMIT) = {} THEN "done" ELSE "check"]
    /\ UNCHANGED <<sharedVars, inputVars, pipeVars, approxVars, map7Vars,
                   map8Vars, queries, attempt,
                   tresult, thit, elapsed, nreq, wrote, cache11, sem, sinceLastReq>>

\* lines 58-60: the cache check at the head of each attempt.
CheckCache11(i) ==
    /\ script = "map11"
    /\ tpc[i] = "check"
    /\ LET cached == get_cached_lat_long(cache11, queries[i])
       IN IF cached[1] # None /\ cached[2] # None
          THEN /\ tpc' = [tpc EXCEPT ![i] = "done"]
               /\ tresult' = [tresult EXCEPT ![i] = cached]
          ELSE /\ tpc' = [tpc EXCEPT ![i] = "request"]
               /\ UNCHANGED tresult
    /\ thit' = [thit EXCEPT ![i] = \E r \in cache11 : r.location_query = queries[i]]
    /\ UNCHANGED <<sharedVars, inputVars, pipeVars, approxVars, map7Vars,
                   map8Vars, queries, attempt,
                   elapsed, nreq, wrote, cache11, sem, sinceLastReq>>

\* lines 66-67: the semaphore is taken and the request is sent.
SendRequest(i) ==
    /\ script = "map11"
    /\ tpc[i] = "request"
    /\ sem < MAX_PARALLEL_REQUESTS
    /\ sem' = sem + 1
    /\ nreq' = [nreq EXCEPT ![i] = @ + 1]
    /\ sinceLastReq' = 0
    /\ runRequests' = runRequests \cup {queries[i]}
    /\ tpc' = [tpc EXCEPT ![i] = "inflight"]
    /\ UNCHANGED <<script, mainpc, run, runFailed, warm, inputVars, pipeVars,
                   approxVars, map7Vars, map8Vars,
                   queries, attempt, tresult, thit, elapsed, wrote,
                   cache11>>

\* The end of one turn of the loop: the next attempt, or line 86 after the
\* last one.
EndOfAttempt(i) ==
    IF attempt[i] + 1 \in AttemptRange(RETRY_LIMIT)
    THEN /\ attempt' = [attempt EXCEPT ![i] = @ + 1]
         /\ tpc' = [tpc EXCEPT ![i] = "check"]
         /\ UNCHANGED <<tresult, runFailed>>
    ELSE /\ attempt' = [attempt EXCEPT ![i] = @ + 1]
         /\ tpc' = [tpc EXCEPT ![i] = "done"]
         /\ tresult' = [tresult EXCEPT ![i] = <<None, None>>]
         /\ runFailed' = runFailed \cup {queries[i]}

\* lines 67-84: the answer arrives; the semaphore is released on every path.
Respond(i) ==
    /\ script = "map11"
    /\ tpc[i] = "inflight"
    /\ sem' = sem - 1
    /\ \E o \in Outcomes11 :
         /\ CASE o.kind = "found" ->
                   /\ cache11' = cache_lat_long(cache11, queries[i], o.lat, o.lng)
                   /\ wrote' = [wrote EXCEPT ![i] = TRUE]
                   /\ tresult' = [tresult EXCEPT ![i] = <<o.lat, o.lng>>]
                   /\ tpc' = [tpc EXCEPT ![i] = "done"]
                   /\ UNCHANGED <<attempt, elapsed, runFailed>>
              [] o.kind = "429" ->
                   /\ tpc' = [tpc EXCEPT ![i] = "sleep"]
                   /\ elapsed' = [elapsed EXCEPT ![i] = 0]
                   /\ UNCHANGED <<attempt, tresult, wrote, cache11, runFailed>>
              [] OTHER ->
                   /\ EndOfAttempt(i)
                   /\ UNCHANGED <<elapsed, wrote, cache11>>
    /\ UNCHANGED <<script, mainpc, run, runRequests, warm, inputVars, pipeVars,
                   approxVars, map7Vars, map8Vars,
                   queries, thit, nreq, sinceLastReq>>

\* line 80: time.sleep(wait_time) has returned; the loop goes on.
Wake(i) ==
    /\ script = "map11"
    /\ tpc[i] = "sleep"
    /\ elapsed[i] >= WaitTime(attempt[i])
    /\ EndOfAttempt(i)
    /\ elapsed' = [elapsed EXCEPT ![i] = 0]
    /\ UNCHANGED <<script, mainpc, run, runRequests, warm, inputVars, pipeVars,
                   approxVars, map7Vars, map8Vars,
                   queries, thit, nreq, wrote, cache11, sem, sinceLastReq>>

Sleepers == {i \in Tasks : tpc[i] = "sleep" /\ elapsed[i] < WaitTime(attempt[i])}

\* line 80: the time.sleep(wait_time) of one thread runs its course.  The
\* sleeps of different threads overlap freely.  The clock since the last
\* request is credited the whole interval, the reading most favourable to
\* the spacing of requests.
Advance ==
    /\ script = "map11"
    /\ \E i \in Sleepers :
          elapsed' = [elapsed EXCEPT ![i] = WaitTime(attempt[i])]
    /\ sinceLastReq' = IF sinceLastReq = -1 THEN -1 ELSE RATE_LIMIT
    /\ UNCHANGED <<sharedVars, inputVars, pipeVars, approxVars, map7Vars,
                   map8Vars, queries, tpc, attempt,
                   tresult, thit, nreq, wrote, cache11, sem>>

\* preprocess_data, lines 107-118: every call has returned, the results are
\* written to the output file.
MainFinish11 ==
    /\ script = "map11"
    /\ mainpc = "wait"
    /\ \A i \in Tasks : tpc[i] = "done"
    /\ mainpc' = "done"
    /\ UNCHANGED <<script, run, runRequests, runFailed, warm, inputVars, pipeVars,
                   approxVars, map7Vars, map8Vars,
                   retryVars>>

\* The script is run again on the same CSV file against the table left by
\* the run before.
RunAgain11 ==
    /\ script = "map11"
    /\ mainpc = "done"
    /\ run < MaxRuns
    /\ run' = run + 1
    /\ mainpc' = "wait"
    /\ runRequests' = {}
    /\ runFailed' = {}
    /\ warm' = {q \in Range(queries) : \E r \in cache11 : r.location_query = q}
    /\ StartTasks(queries)
    /\ UNCHANGED <<script, inputVars, pipeVars, approxVars, map7Vars, map8Vars, queries, cache11>>

NextRetry ==
    \/ \E i \in Tasks : StartTask(i)
    \/ \E i \in Tasks : CheckCache11(i)
    \/ \E i \in Tasks : SendRequest(i)
    \/ \E i \in Tasks : Respond(i)
    \/ \E i \in Tasks : Wake(i)
    \/ Advance
    \/ MainFinish11
    \/ RunAgain11

SpecRetry == InitRetry /\ [][NextRetry]_vars

-----------------------------------------------------------------------------
(* feature_10_final.py: approximate_missing_locations                       *)

\* Coordinates are exact fractions <<numerator, denominator>>, kept in lowest
\* terms, so that a mean is the mean and not a rounding of it.
RECURSIVE GCD(_, _)
GCD(a, b) == IF b = 0 THEN a ELSE GCD(b, a % b)

Norm(q) == LET g == GCD(q[1], q[2]) IN IF g = 0 THEN q ELSE <<q[1] \div g, q[2] \div g>>

AddR(a, b) == Norm(<<a[1] * b[2] + b[1] * a[2], a[2] * b[2]>>)

DivR(a, k) == Norm(<<a[1], a[2] * k>>)

RECURSIVE SumR(_)
SumR(s) == IF s = <<>> THEN <<0, 1>> ELSE AddR(Head(s), SumR(Tail(s)))

\* Series.mean() of a column without missing values.
Mean(s) == DivR(SumR(s), Len(s))

NA == None

Places ==
    {<<"MH", "Mumbai">>, <<"MH", "Pune">>, <<"MH", "Nagpur">>, <<"KA", "Pune">>}

Positions == {<<NA, NA>>, <<<<0, 1>>, <<0, 1>>>>, <<<<6, 1>>, <<12, 1>>>>}

Records ==
    {[State |-> p[1], District |-> p[2], Latitude |-> c[1], Longitude |-> c[2]] :
        p \in Places, c \in Positions}

\* pd.isna
isna(v) == v = NA

\* frame[['Latitude', 'Longitude']].dropna(): the rows with both coordinates,
\* in the order of the frame.
dropna(frame) ==
    LET both(r) == ~isna(r.Latitude) /\ ~isna(r.Longitude)
    IN SelectSeq(frame, both)

\* Two faulty filters, against which the fallback properties are tried: the
\* district filter that forgets the district, the state filter that forgets
\* the state.
coords_ignoring_district(frame, state, district) ==
    LET in_state(r) == r.State = state
    IN dropna(SelectSeq(frame, in_state))

coords_ignoring_state(frame, state) == dropna(frame)

\* lines 88-92: the rows of the district with both coordinates.
district_coords(frame, state, district) ==
    LET in_district(r) == r.State = state /\ r.District = district
    IN dropna(SelectSeq(frame, in_district))

\* lines 97-98: the rows of the state with both coordinates.
state_coords(frame, state) ==
    LET in_state(r) == r.State = state
    IN dropna(SelectSeq(frame, in_state))

Column(rows, name) == [i \in 1..Len(rows) |-> rows[i][name]]

\* A faulty turn of the loop that forgets the test of line 83 and writes
\* every row, against which the properties of the pass are tried.
ApproxRowAlways(frame, i) ==
    LET row == frame[i]
        dc == district_coords(frame, row.State, row.District)
        sc == state_coords(frame, row.State)
        from == IF dc # <<>> THEN dc ELSE sc
    IN IF from = <<>>
       THEN frame
       ELSE [frame EXCEPT ![i] = [row EXCEPT !.Latitude = Mean(Column(from, "Latitude")),
                                             !.Longitude = Mean(Column(from, "Longitude"))]]

\* lines 82-106: one turn of the loop, on the frame as it is now.
ApproxRow(frame, i) ==
    LET row == frame[i]
        dc == district_coords(frame, row.State, row.District)
        sc == state_coords(frame, row.State)
        from == IF dc # <<>> THEN dc ELSE sc
    IN IF ~(isna(row.Latitude) \/ isna(row.Longitude)) \/ from = <<>>
       THEN frame
       ELSE [frame EXCEPT ![i] = [row EXCEPT !.Latitude = Mean(Column(from, "Latitude")),
                                             !.Longitude = Mean(Column(from, "Longitude"))]]

\* approximate_missing_locations as a whole: the loop from row i to the end,
\* each turn on the frame the turns before it have left.
RECURSIVE ApproxFrom(_, _)
ApproxFrom(frame, i) ==
    IF i > Len(frame) THEN frame ELSE ApproxFrom(ApproxRow(frame, i), i + 1)

approximate_missing_locations(frame) == ApproxFrom(frame, 1)

InitApprox ==
    /\ script = "approx"
    /\ IdlePipeline
    /\ IdleRetry
    /\ IdleMap7
    /\ IdleMap8
    /\ \E n \in 0..MaxRecords : crime_data \in [1..n -> Records]
    /\ original = crime_data
    /\ index = 1
    /\ mainpc = "wait"
    /\ run = 1
    /\ runRequests = {}
    /\ runFailed = {}
    /\ warm = {}

\* for index, row in crime_data.iterrows()
ApproxStep ==
    /\ script = "approx"
    /\ mainpc = "wait"
    /\ index <= Len(crime_data)
    /\ crime_data' = ApproxRow(crime_data, index)
    /\ index' = index + 1
    /\ UNCHANGED <<sharedVars, inputVars, pipeVars, retryVars, map7Vars, map8Vars, original>>

\* line 108: return crime_data
ApproxReturn ==
    /\ script = "approx"
    /\ mainpc = "wait"
    /\ index > Len(crime_data)
    /\ mainpc' = "done"
    /\ UNCHANGED <<script, run, runRequests, runFailed, warm, inputVars, pipeVars,
                   retryVars, approxVars, map7Vars, map8Vars>>

NextApprox ==
    \/ ApproxStep
    \/ ApproxReturn

SpecApprox == InitApprox /\ [][NextApprox]_vars

-----------------------------------------------------------------------------
(* map7_Geocoding.py: get_coordinates and the marker loops of               *)
(* create_crime_map                                                         *)

\* The calls of lines 97, 115, 134 and 153: (district, state, police_station),
\* with None where the level has none.
CallSpace7 ==
    {<<"None", "MH", "None">>, <<"Mumbai", "MH", "None">>, <<"Mumbai", "MH", "Colaba">>}

\* lines 21-25
locations_to_try(district, state, police_station) ==
    <<StationString(police_station, district, state),
      DistrictString(district, state),
      StateString(state)>>

\* What geolocator.geocode does: a location, None, one of the two exceptions
\* that line 32 names, or another exception of geopy (GeocoderServiceError
\* for an HTTP error, GeocoderQuotaExceeded, GeocoderParseError, ...).
Outcomes7 ==
    {"found", "none", "GeocoderTimedOut", "GeocoderUnavailable", "GeocoderServiceError"}

InitMap7 ==
    /\ script = "map7"
    /\ IdlePipeline
    /\ IdleRetry
    /\ IdleApprox
    /\ IdleMap8
    /\ \E n \in 0..MaxCalls : calls7 \in [1..n -> CallSpace7]
    /\ call7 = 1
    /\ try7 = 1
    /\ markers7 = <<>>
    /\ mainpc = "wait"
    /\ run = 1
    /\ runRequests = {}
    /\ runFailed = {}
    /\ warm = {}

\* get_coordinates, lines 27-34: one turn of the loop over locations_to_try.
\* An exception that line 32 does not name leaves get_coordinates and the
\* loop of create_crime_map that called it: the script ends there.
Geocode7 ==
    /\ script = "map7"
    /\ mainpc = "wait"
    /\ call7 <= Len(calls7)
    /\ LET c == calls7[call7]
           location_str == locations_to_try(c[1], c[2], c[3])[try7]
       IN /\ runRequests' = runRequests \cup {location_str}
          /\ \E o \in Outcomes7 :
               CASE o = "found" ->
                      /\ markers7' = Append(markers7, Some(ServicePosition(location_str)))
                      /\ call7' = call7 + 1
                      /\ try7' = 1
                      /\ UNCHANGED mainpc
                 [] o = "GeocoderServiceError" ->
                      /\ mainpc' = "aborted"
                      /\ UNCHANGED <<markers7, call7, try7>>
                 [] OTHER ->
                      /\ IF try7 < Len(locations_to_try(c[1], c[2], c[3]))
                         THEN /\ try7' = try7 + 1
                              /\ UNCHANGED <<markers7, call7>>
                         ELSE /\ markers7' = Append(markers7, None)
                              /\ call7' = call7 + 1
                              /\ try7' = 1
                      /\ UNCHANGED mainpc
    /\ UNCHANGED <<script, run, runFailed, warm, inputVars, pipeVars, retryVars,
                   approxVars, calls7, map8Vars>>

\* create_crime_map: the loops are over, the map is saved.
Finish7 ==
    /\ script = "map7"
    /\ mainpc = "wait"
    /\ call7 > Len(calls7)
    /\ mainpc' = "done"
    /\ UNCHANGED <<script, run, runRequests, runFailed, warm, inputVars, pipeVars,
                   retryVars, approxVars, map7Vars, map8Vars>>

NextMap7 ==
    \/ Geocode7
    \/ Finish7

SpecMap7 == InitMap7 /\ [][NextMap7]_vars

-----------------------------------------------------------------------------
(* map10/preprocessing2.py: the asyncio variant.  It keeps the table and    *)
(* the two table functions of map11, and one task per row.                  *)

\* The rows of the CSV file of map10.
RowSpace10 == {[state |-> "MH", district |-> "Mumbai", station |-> "Colaba"]}

\* not location_query.strip(), lines 74 and 118: the whole text is blank.
\* The text is the tokens joined by ", ".
IsBlank(location_query) == location_query = <<>> \/ location_query = <<"">>

\* The positions the remote service may answer a query with: two requests
\* for one text need not get the same first result.
Coords10 == {<<19, 73>>, <<20, 74>>}

\* What the request of lines 85-97 ends with: a first result, no result, or
\* an exception (raise_for_status, a timeout, a malformed answer).
Outcomes10 ==
    {[kind |-> "found", lat |-> Some(c[1]), lng |-> Some(c[2])] : c \in Coords10}
      \cup {[kind |-> k, lat |-> None, lng |-> None] : k \in {"empty", "exception"}}

\* preprocess_data, lines 105-134: the queries of the rows, the blank ones
\* filtered out, and one task per query, all created before any runs.
InitAsync ==
    /\ script = "map10"
    /\ IdlePipeline
    /\ IdleApprox
    /\ IdleMap7
    /\ IdleMap8
    /\ \E n \in 0..MaxTasks : \E rows \in [1..n -> RowSpace10] :
         queries = SelectSeq([i \in 1..n |-> LocationQuery(rows[i])],
                             LAMBDA q : ~IsBlank(q))
    /\ tpc = [i \in DOMAIN queries |-> "queued"]
    /\ attempt = [i \in DOMAIN queries |-> 0]
    /\ tresult = [i \in DOMAIN queries |-> <<None, None>>]
    /\ thit = [i \in DOMAIN queries |-> FALSE]
    /\ elapsed = [i \in DOMAIN queries |-> 0]
    /\ nreq = [i \in DOMAIN queries |-> 0]
    /\ wrote = [i \in DOMAIN queries |-> FALSE]
    /\ cache11 = EmptyStore
    /\ sem = 0
    /\ sinceLastReq = -1
    /\ mainpc = "wait"
    /\ run = 1
    /\ runRequests = {}
    /\ runFailed = {}
    /\ warm = {}

\* geocode_location, lines 72-85: the event loop runs the next task up to
\* its first await.  The blank test, the cache lookup and the sending of the
\* request have no await between them.
RunTask10(i) ==
    /\ script = "map10"
    /\ tpc[i] = "queued"
    /\ \A j \in Tasks : j < i => tpc[j] # "queued"
    /\ LET cached == get_cached_lat_long(cache11, queries[i])
       IN CASE IsBlank(queries[i]) ->
                 /\ tpc' = [tpc EXCEPT ![i] = "done"]
                 /\ UNCHANGED <<tresult, nreq, runRequests>>
            [] ~IsBlank(queries[i]) /\ cached[1] # None /\ cached[2] # None ->
                 /\ tpc' = [tpc EXCEPT ![i] = "done"]
                 /\ tresult' = [tresult EXCEPT ![i] = cached]
                 /\ UNCHANGED <<nreq, runRequests>>
            [] OTHER ->
                 /\ tpc' = [tpc EXCEPT ![i] = "inflight"]
                 /\ nreq' = [nreq EXCEPT ![i] = @ + 1]
                 /\ runRequests' = runRequests \cup {queries[i]}
                 /\ UNCHANGED tresult
    /\ UNCHANGED <<script, mainpc, run, runFailed, warm, inputVars, pipeVars,
                   approxVars, map7Vars, map8Vars, queries, attempt, thit, elapsed, wrote,
                   cache11, sem, sinceLastReq>>

\* geocode_location, lines 86-103: the answer of a request has come.  The
\* loop looks for answers only when no task is ready to run.
Respond10(i) ==
    /\ script = "map10"
    /\ tpc[i] = "inflight"
    /\ \A j \in Tasks : tpc[j] # "queued"
    /\ \E o \in Outcomes10 :
         IF o.kind = "found"
         THEN /\ cache11' = cache_lat_long(cache11, queries[i], o.lat, o.lng)
              /\ wrote' = [wrote EXCEPT ![i] = TRUE]
              /\ tresult' = [tresult EXCEPT ![i] = <<o.lat, o.lng>>]
              /\ UNCHANGED runFailed
         ELSE /\ runFailed' = runFailed \cup {queries[i]}
              /\ UNCHANGED <<cache11, wrote, tresult>>
    /\ tpc' = [tpc EXCEPT ![i] = "done"]
    /\ UNCHANGED <<script, mainpc, run, runRequests, warm, inputVars, pipeVars,
                   approxVars, map7Vars, map8Vars, queries, attempt, thit, elapsed, nreq,
                   sem, sinceLastReq>>

\* preprocess_data, lines 134-168: gather has returned; the success rate
\* divides by successful + failed, the number of tasks.
Finish10 ==
    /\ script = "map10"
    /\ mainpc = "wait"
    /\ \A i \in Tasks : tpc[i] = "done"
    /\ mainpc' = IF Len(queries) = 0 THEN "crashed" ELSE "done"
    /\ UNCHANGED <<script, run, runRequests, runFailed, warm, inputVars, pipeVars,
                   approxVars, map7Vars, map8Vars, retryVars>>

\* The script is run again on the same CSV file against the table left by
\* the run before.
RunAgain10 ==
    /\ script = "map10"
    /\ mainpc = "done"
    /\ run < MaxRuns
    /\ run' = run + 1
    /\ mainpc' = "wait"
    /\ runRequests' = {}
    /\ runFailed' = {}
    /\ warm' = {q \in Range(queries) : \E r \in cache11 : r.location_query = q}
    /\ StartTasks(queries)
    /\ UNCHANGED <<script, inputVars, pipeVars, approxVars, map7Vars, map8Vars, queries, cache11>>

NextAsync ==
    \/ \E i \in Tasks : RunTask10(i)
    \/ \E i \in Tasks : Respond10(i)
    \/ Finish10
    \/ RunAgain10

SpecAsync == InitAsync /\ [][NextAsync]_vars

-----------------------------------------------------------------------------
(* map8/preprocess_locations.py: GeocodingService.geocode                   *)

\* RateLimiter(..., max_retries=3), line 45, and
\* backoff.on_exception(..., max_tries=5), line 57.
max_retries == 3

max_tries == 5

\* The location strings geocode is called with.
Locations8 == {StateString("MH")}

\* What Nominatim.geocode does for one call: a location, None, or an
\* exception: geopy's GeocoderTimedOut and GeocoderUnavailable, another
\* GeocoderServiceError, or an exception that is not geopy's (a requests
\* RequestException, a ValueError).
Outcomes8 ==
    {"found", "none", "GeocoderTimedOut", "GeocoderUnavailable",
     "GeocoderServiceError", "RequestException"}

\* geopy's RateLimiter retries on GeocoderServiceError, of which
\* GeocoderTimedOut and GeocoderUnavailable are subclasses, and on nothing
\* else.
LimiterRetries(e) ==
    e \in {"GeocoderTimedOut", "GeocoderUnavailable", "GeocoderServiceError"}

\* except Exception, line 65: what the body of geocode catches.
BodyCatches(e) ==
    e \in {"GeocoderTimedOut", "GeocoderUnavailable", "GeocoderServiceError",
           "RequestException"}

\* The exceptions the decorator of lines 54-58 retries on.
BackoffRetries(e) ==
    e \in {"GeocoderTimedOut", "GeocoderUnavailable", "RequestException"}

InitMap8 ==
    /\ script = "map8"
    /\ IdlePipeline
    /\ IdleRetry
    /\ IdleApprox
    /\ IdleMap7
    /\ \E n \in 0..MaxCalls : batch8 \in [1..n -> Locations8]
    /\ results8 = <<>>
    /\ tries8 = 0
    /\ invocations8 = 0
    /\ mainpc = "wait"
    /\ run = 1
    /\ runRequests = {}
    /\ runFailed = {}
    /\ warm = {}

\* What geocode returns to process_location.
Returned8(lat, lon, tries, invocations, last) ==
    [lat |-> lat, lon |-> lon, tries |-> tries, invocations |-> invocations,
     last |-> last]

\* One call of Nominatim.geocode by the RateLimiter inside geocode (line 61)
\* and what follows it.  A location or None is returned by the body (lines
\* 62-64).  On an exception the RateLimiter retries while it has retries
\* left; after the last one it swallows the exception and gives None.  An
\* exception it does not retry on goes to the body, which catches it (lines
\* 65-67); only an exception the body lets through would reach the backoff
\* wrapper, which would then enter geocode again while it has tries left.
Call8 ==
    /\ script = "map8"
    /\ mainpc = "wait"
    /\ Len(results8) < Len(batch8)
    /\ LET location_string == batch8[Len(results8) + 1]
           n == tries8 + 1
           inv == IF invocations8 = 0 THEN 1 ELSE invocations8
           \* the calls made by the RateLimiter since geocode was entered
           inLimiter == n - (inv - 1) * (max_retries + 1)
           pos == ServicePosition(location_string)
       IN /\ runRequests' = runRequests \cup {location_string}
          /\ \E o \in Outcomes8 :
               CASE o = "found" ->
                      /\ results8' = Append(results8,
                             Returned8(Some(pos[1]), Some(pos[2]), n, inv, o))
                      /\ tries8' = 0
                      /\ invocations8' = 0
                 [] o = "none" ->
                      /\ results8' = Append(results8, Returned8(None, None, n, inv, o))
                      /\ tries8' = 0
                      /\ invocations8' = 0
                 [] o \notin {"found", "none"} /\ LimiterRetries(o)
                      /\ inLimiter <= max_retries ->
                      /\ tries8' = n
                      /\ invocations8' = inv
                      /\ UNCHANGED results8
                 [] o \notin {"found", "none"} /\ LimiterRetries(o)
                      /\ inLimiter > max_retries ->
                      /\ results8' = Append(results8, Returned8(None, None, n, inv, o))
                      /\ tries8' = 0
                      /\ invocations8' = 0
                 [] OTHER ->
                      IF BodyCatches(o)
                      THEN /\ results8' = Append(results8,
                                  Returned8(None, None, n, inv, o))
                           /\ tries8' = 0
                           /\ invocations8' = 0
                      ELSE IF BackoffRetries(o) /\ inv < max_tries
                      THEN /\ tries8' = n
                           /\ invocations8' = inv + 1
                           /\ UNCHANGED results8
                      ELSE /\ results8' = Append(results8,
                                  Returned8(None, None, n, inv, "raised"))
                           /\ tries8' = 0
                           /\ invocations8' = 0
    /\ UNCHANGED <<script, mainpc, run, runFailed, warm, inputVars, pipeVars,
                   retryVars, approxVars, map7Vars, batch8>>

\* Every location of the batch has its answer.
Finish8 ==
    /\ script = "map8"
    /\ mainpc = "wait"
    /\ Len(results8) = Len(batch8)
    /\ mainpc' = "done"
    /\ UNCHANGED <<script, run, runRequests, runFailed, warm, inputVars, pipeVars,
                   retryVars, approxVars, map7Vars, map8Vars>>

NextMap8 ==
    \/ Call8
    \/ Finish8

SpecMap8 == InitMap8 /\ [][NextMap8]_vars

\* The scripts that keep a table of geocoded locations: map9, map11, map10.
InitCaches == InitPipeline \/ InitRetry \/ InitAsync

NextCaches == NextPipeline \/ NextRetry \/ NextAsync

SpecCaches == InitCaches /\ [][NextCaches]_vars

\* The two tables and their writers: locations under map9, geocoded_locations
\* under the tasks of map10.
InitTables == InitPipeline \/ InitAsync

NextTables == NextPipeline \/ NextAsync

SpecTables == InitTables /\ [][NextTables]_vars

\* Either script, from its start.
Init ==
    InitPipeline \/ InitRetry \/ InitApprox \/ InitMap7 \/ InitAsync \/ InitMap8

Next ==
    NextPipeline \/ NextRetry \/ NextApprox \/ NextMap7 \/ NextAsync \/ NextMap8

Spec == Init /\ [][Next]_vars

-----------------------------------------------------------------------------
(* Properties *)

\* The locations a run of either geocoding script goes through.
RunLocations == IF script = "map9" THEN Range(locations) ELSE Range(queries)

\* C1, as stated: a second run on the unchanged dataset, against the cache of
\* the first run, issues no request at all, whatever the first run's answers
\* were.
C1_SecondRunNoRequests == run >= 2 => runRequests = {}

\* C1, amended: a second run issues no request for a location the cache holds
\* with coordinates from the first run, and by its end it has requested again
\* exactly the locations the first run left unresolved.
C1_SecondRunSkipsCached ==
    run >= 2 =>
        /\ runRequests \cap warm = {}
        /\ mainpc = "done" => runRequests = RunLocations \ warm

\* A second run has ended that found part of its locations in the cache and
\* sent requests for the rest.
C1_Witness ==
    /\ run = 2
    /\ mainpc = "done"
    /\ warm # {}
    /\ runRequests # {}
    /\ runRequests = RunLocations \ warm

\* C2: process_location calls the geocoder only if its cache check found no
\* row with success = 1 for the location; on a hit it goes straight to the
\* end, with no request and no write to the table.
C2_CacheHitNoRequery ==
    /\ [](\A w \in Workers : pc[w] \in {"geocode", "write"} => ~checkHit[w])
    /\ [][\A w \in Workers :
             (pc[w] = "check" /\ HasSuccess(store, Head(wbatch[w]))) =>
                 /\ pc'[w] \in {"check", "put"}
                 /\ pc'[w] = "put" => (store' = store /\ runRequests' = runRequests)]_vars

\* A worker has answered a location from the cache.
C2_Witness ==
    \E w \in Workers :
        /\ pc[w] = "put"
        /\ checkHit[w]
        /\ wres[w] = NoAnswer
        /\ Head(wbatch[w]) \notin runRequests

\* C3, as stated: whatever the number of threads, a request is sent to the
\* geocoding service only when none was sent before or at least the minimum
\* interval has passed since the last one.
C3_RateLimit ==
    [][sem' > sem => (sinceLastReq = -1 \/ sinceLastReq >= RATE_LIMIT)]_vars

\* The rows of a frame, by number, that have both coordinates and lie in the
\* district, or in the state, of row i.
ResolvedOfDistrict(frame, i) ==
    {j \in DOMAIN frame :
        /\ frame[j].State = frame[i].State
        /\ frame[j].District = frame[i].District
        /\ frame[j].Latitude # NA
        /\ frame[j].Longitude # NA}

ResolvedOfState(frame, i) ==
    {j \in DOMAIN frame :
        /\ frame[j].State = frame[i].State
        /\ frame[j].Latitude # NA
        /\ frame[j].Longitude # NA}

Missing(frame, i) == frame[i].Latitude = NA \/ frame[i].Longitude = NA

RECURSIVE Total(_, _, _)
Total(frame, rows, name) ==
    IF rows = {}
    THEN <<0, 1>>
    ELSE LET j == CHOOSE x \in rows : TRUE
             rest == Total(frame, rows \ {j}, name)
             v == frame[j][name]
         IN <<v[1] * rest[2] + rest[1] * v[2], v[2] * rest[2]>>

\* The fraction q is the mean of a column over the given rows.
IsMeanOf(q, frame, rows, name) ==
    LET t == Total(frame, rows, name)
    IN q # NA /\ q[1] * t[2] * Cardinality(rows) = t[1] * q[2]

\* The rows the loop has been through.
Processed == {i \in DOMAIN crime_data : i < index}

\* C4: a record without coordinates whose (state, district) has a record with
\* coordinates gets the mean of the coordinates of the records of that
\* district that came with coordinates, and of no other record.
C4_DistrictMean ==
    \A i \in Processed :
        (Missing(original, i) /\ ResolvedOfDistrict(original, i) # {}) =>
            /\ IsMeanOf(crime_data[i].Latitude, original,
                        ResolvedOfDistrict(original, i), "Latitude")
            /\ IsMeanOf(crime_data[i].Longitude, original,
                        ResolvedOfDistrict(original, i), "Longitude")

\* The function has returned a frame in which a record took the mean of two
\* records of its district that differ, while its state holds a record of
\* another district with coordinates.
C4_Witness ==
    /\ script = "approx"
    /\ mainpc = "done"
    /\ \E i \in DOMAIN original :
         /\ Missing(original, i)
         /\ \E j, k \in ResolvedOfDistrict(original, i) :
              original[j].Latitude # original[k].Latitude
         /\ ResolvedOfState(original, i) # ResolvedOfDistrict(original, i)
         /\ crime_data[i].Latitude = <<3, 1>>
         /\ crime_data[i].Longitude = <<6, 1>>

\* C5, as stated: a record without coordinates whose district has no record
\* with coordinates, but whose state has one, gets the mean of the records of
\* the state that came with coordinates, wherever it stands in the frame.
C5_StateCentroid ==
    \A i \in Processed :
        (/\ Missing(original, i)
         /\ ResolvedOfDistrict(original, i) = {}
         /\ ResolvedOfState(original, i) # {}) =>
            /\ IsMeanOf(crime_data[i].Latitude, original,
                        ResolvedOfState(original, i), "Latitude")
            /\ IsMeanOf(crime_data[i].Longitude, original,
                        ResolvedOfState(original, i), "Longitude")

\* C6: a record without coordinates whose state has no record with
\* coordinates stays without coordinates, and when the function returns every
\* other record has coordinates.
C6_Exhaustion ==
    /\ \A i \in DOMAIN crime_data :
         (Missing(original, i) /\ ResolvedOfState(original, i) = {}) =>
             (crime_data[i].Latitude = NA /\ crime_data[i].Longitude = NA)
    /\ mainpc = "done" =>
         \A i \in DOMAIN crime_data :
             ResolvedOfState(original, i) # {} => ~Missing(crime_data, i)

\* The function has returned: a record stayed without coordinates, a record
\* after it was given some, and a record of another state has coordinates.
C6_Witness ==
    /\ script = "approx"
    /\ mainpc = "done"
    /\ \E i, j \in DOMAIN crime_data :
         /\ i < j
         /\ Missing(original, i)
         /\ ResolvedOfState(original, i) = {}
         /\ Missing(crime_data, i)
         /\ Missing(original, j)
         /\ ~Missing(crime_data, j)

\* The coordinates the table holds, with success = 1, for a text.
StoredCoordinates(location_string) ==
    LET r == CHOOSE x \in store :
                 x.location_string = location_string /\ x.success
    IN <<r.latitude, r.longitude>>

\* C7, as stated: when preprocessing stored a location with success, a lookup
\* of that location by a map script returns the coordinates that were stored.
C7_RoundTrip ==
    lookup # None =>
        LET l == lookup[1]
        IN HasSuccess(store, WriterString(l.key)) =>
               l.result = StoredCoordinates(WriterString(l.key))

\* C8: a call that the service answers with 429 at attempt a goes on only
\* after a wait of RATE_LIMIT * 2^a; a call issues at most RETRY_LIMIT
\* requests; a call that used them all up returns (None, None) and has not
\* written to the table.
C8_RetryPolicy ==
    /\ [](\A i \in DOMAIN tpc :
            /\ nreq[i] <= RETRY_LIMIT
            /\ (tpc[i] = "done" /\ nreq[i] = RETRY_LIMIT /\ ~wrote[i]) =>
                   tresult[i] = <<None, None>>
            /\ (tpc[i] = "done" /\ tresult[i] = <<None, None>>) =>
                   (nreq[i] = RETRY_LIMIT /\ ~wrote[i]))
    /\ [][\A i \in DOMAIN tpc :
             (tpc[i] = "sleep" /\ tpc'[i] # "sleep") =>
                 /\ elapsed[i] >= RATE_LIMIT * 2^(attempt[i])
                 /\ attempt'[i] = attempt[i] + 1
                 /\ nreq'[i] = nreq[i]]_vars

\* The fifth request of a call was answered with 429 and the wait of
\* RATE_LIMIT * 2^4 has run its course.
C8_Witness ==
    \E i \in DOMAIN tpc :
        /\ tpc[i] = "sleep"
        /\ attempt[i] = RETRY_LIMIT - 1
        /\ nreq[i] = RETRY_LIMIT
        /\ elapsed[i] = RATE_LIMIT * 16

\* C9, as stated: when a request ends with no result and without the 429
\* signal (an error, or an empty answer), the call ends at once and returns
\* (None, None): no further attempt is made.
C9_FailImmediately ==
    [][\A i \in DOMAIN tpc :
          (tpc[i] = "inflight" /\ tpc'[i] \notin {"inflight", "sleep"} /\ ~wrote'[i]) =>
              (tpc'[i] = "done" /\ tresult'[i] = <<None, None>>)]_vars

\* C10, as stated: after a run, every location whose geocoding failed has a
\* failed entry in the table: a row without coordinates.
C10_FailedEntry ==
    (script = "map11" /\ mainpc = "done") =>
        \A q \in runFailed :
            \E r \in cache11 :
                r.location_query = q /\ r.latitude = None /\ r.longitude = None

\* The rows the table holds for a text.
RowsOf(location_string) == {r \in store : r.location_string = location_string}

\* C11: when preprocess_locations returns, every unique location of the
\* dataset was found in the cache, or has a row written by this run, with
\* success or without; no batch is waiting and no worker is at work.
C11_ReturnsAfterAll ==
    (script = "map9" /\ mainpc = "done") =>
        /\ \A l \in Range(locations) :
             \/ l \in warm /\ \E r \in RowsOf(l) : r.success
             \/ \E r \in RowsOf(l) : r.last_attempt = run
        /\ pending = <<>>
        /\ \A w \in Workers : pc[w] = "idle" /\ wbatch[w] = <<>>
        /\ completed = Len(locations)

\* A second run has returned with a location from the cache, a location it
\* resolved itself and a location it failed on.
C11_Witness ==
    /\ script = "map9"
    /\ mainpc = "done"
    /\ run = 2
    /\ \E l1, l2, l3 \in Range(locations) :
         /\ l1 \in warm
         /\ \E r \in RowsOf(l2) : r.last_attempt = 2 /\ r.success
         /\ \E r \in RowsOf(l3) : r.last_attempt = 2 /\ ~r.success

\* C12: a geocoding request that fails for one location (no match, HTTP
\* error, timeout, any exception while requesting) never ends the run: the
\* call gives its failure value, and every location after it is still
\* processed.  In map7 every call of get_coordinates returns (a position or
\* None) and the script reaches its end; in map9 a location whose request
\* failed has its failed entry and the run completes with all of them.
C12_FailureNeverAborts ==
    /\ script = "map7" =>
         /\ mainpc # "aborted"
         /\ mainpc = "done" => Len(markers7) = Len(calls7)
    /\ (script = "map9" /\ mainpc = "done") =>
         /\ \A l \in runFailed : \E r \in RowsOf(l) : ~r.success /\ r.last_attempt = run
         /\ completed = Len(locations)

\* C13: a store error while a worker processes one location is fatal to that
\* location only: the worker goes on with the next location of its batch.
\* So a worker's batch changes only by a new batch being taken when the old
\* one is finished, or by the one location at its head leaving it (processed
\* or failed): the locations behind it stay to be processed.
C13_StoreErrorOneItemOnly ==
    [][script = "map9" =>
         \A w \in Workers :
             wbatch'[w] # wbatch[w] =>
                 \/ wbatch[w] = <<>>
                 \/ wbatch'[w] = Tail(wbatch[w])]_vars

\* C14: after the process is killed, every entry committed before the kill
\* is in the table, unchanged, when the next run starts; and the next run
\* calls the geocoder exactly for the locations that have no successful
\* entry at its start (warm): never for one of warm, and, when it returns,
\* for every other one.
C14_Resumable ==
    /\ [][(script = "map9" /\ (mainpc' = "killed" \/ mainpc = "killed"))
            => store' = store]_vars
    /\ []((script = "map9" /\ run = 2) =>
            /\ runRequests \cap warm = {}
            /\ mainpc = "done" => runRequests = Range(locations) \ warm)

\* A run resumed after a kill has returned: it found entries of the killed
\* run, tried again a location that had failed in it, and requested a
\* location the killed run had not reached.
C14_Witness ==
    /\ script = "map9"
    /\ run = 2
    /\ mainpc = "done"
    /\ warm # {}
    /\ \E r \in store : r.attempts = 2 /\ r.last_attempt = 2
    /\ \E r \in store : r.attempts = 1 /\ r.last_attempt = 2

\* C15: every entry with success = true has a latitude and a longitude, the
\* latitude within [-90, 90] and the longitude within [-180, 180], whatever
\* the geocoder returned.
C15_ValidCoordinates ==
    \A r \in store :
        r.success =>
            /\ r.latitude # None
            /\ r.longitude # None
            /\ \A lat \in Range(r.latitude) : -90 <= lat /\ lat <= 90
            /\ \A lon \in Range(r.longitude) : -180 <= lon /\ lon <= 180

\* The query of a row whose state, district and station are all missing.
RowBlank(location_query) == \A k \in 1..3 : location_query[k] = ""

\* C16: an empty query is rejected before any cache or network access: a row
\* whose state, district and station are all missing or blank never looks
\* into the cache and never produces a request.
C16_EmptyQueryRejected ==
    script = "map11" =>
        /\ \A q \in runRequests : ~RowBlank(q)
        /\ \A i \in Tasks :
               RowBlank(queries[i]) => tpc[i] \in {"queued", "done"} /\ nreq[i] = 0

\* C18: every run that completes ends with the final summary (the counts of
\* successful and failed locations and the success rate), for every dataset,
\* one with no location included, and the two counts sum to the number of
\* unique locations.
C18_FinalSummary ==
    (script = "map9" /\ mainpc \in {"done", "crashed"}) =>
        /\ summary # None
        /\ \A s \in Range(summary) : s.successful + s.failed = Len(locations)

\* C17: the table holds at most one entry per location hash (map9) and at
\* most one per query string (map11), whatever the order of the writes of
\* the worker threads.
C17_UniqueKey ==
    /\ \A r1, r2 \in store : r1.location_hash = r2.location_hash => r1 = r2
    /\ \A r1, r2 \in cache11 : r1.location_query = r2.location_query => r1 = r2

\* A location that failed in the first run was written again in the second,
\* while another worker was writing too, and has one entry.
C17_Witness ==
    /\ script = "map9"
    /\ run = 2
    /\ \E r \in store :
         /\ r.attempts = 2
         /\ Cardinality({x \in store : x.location_hash = r.location_hash}) = 1
    /\ Cardinality(store) = 2
    /\ \E w \in Workers : pc[w] = "write"

\* C19: the API key is required: when it is absent or empty the run fails at
\* startup, before any row is processed, any entry is written or any request
\* is sent.
C19_ApiKeyRequired ==
    (script = "map9" /\ here_api_key \in {None, Some("")}) =>
        /\ mainpc \in {"start", "usage"}
        /\ runRequests = {}
        /\ store = EmptyStore
        /\ \A w \in Workers : pc[w] = "idle"

\* C20: under fair scheduling every run terminates, for every dataset, worker
\* count and batch size and every outcome of the geocoder and of the store
\* operations, a store operation that raises inside a worker included: the
\* main loop never waits forever.
C20_Terminates ==
    (script = "map9" /\ mainpc = "wait") ~> (mainpc \in {"done", "crashed"})

\* The locations of a sequence of batches, in order.
RECURSIVE Flatten(_)
Flatten(batches) ==
    IF batches = <<>> THEN <<>> ELSE Head(batches) \o Flatten(Tail(batches))

\* C21: within one run each unique location query is resolved exactly once:
\* the batches partition the unique locations (every location is in exactly
\* one batch, for every batch_size >= 1), and the geocoder is never called
\* by two workers for the same query string.
C21_ResolvedOnce ==
    /\ script = "map9" =>
         /\ Flatten(Batches(locations, batch_size)) = locations
         /\ \A i, j \in DOMAIN locations : locations[i] = locations[j] => i = j
         /\ \A w1, w2 \in Workers :
                w1 # w2 => Range(wbatch[w1]) \cap Range(wbatch[w2]) = {}
    /\ script = "map11" =>
         \A i, j \in Tasks :
             (i # j /\ queries[i] = queries[j]) =>
                 ~(tpc[i] = "inflight" /\ tpc[j] = "inflight")

\* C22: at every moment the number of geocoding requests in flight is at
\* most the configured worker count (max_workers in map8/map9, 5 in map11
\* and for the tasks of map10), whatever the number of locations.
C22_BoundedConcurrency ==
    /\ script = "map9" =>
         Cardinality({w \in Workers : pc[w] = "geocode"}) <= max_workers
    /\ script \in {"map10", "map11"} =>
         Cardinality({i \in Tasks : tpc[i] = "inflight"}) <= MAX_PARALLEL_REQUESTS

\* The units of progress reported so far in this run: those still on the
\* queue and those the main thread has taken.
UnitsReported == progress_queue + completed

\* C23: progress is reported one unit per completed location: a unit is put
\* only after the processing of its location has finished (a cache hit, or
\* the result committed), and when every worker is done the number of units
\* reported equals the number of unique locations.
C23_ProgressUnits ==
    /\ [][(script = "map9" /\ UnitsReported' > UnitsReported) =>
            /\ UnitsReported' = UnitsReported + 1
            /\ \E w \in Workers :
                 /\ pc[w] = "put"
                 /\ wbatch'[w] = Tail(wbatch[w])
                 /\ \/ checkHit[w]
                    \/ \E r \in RowsOf(Head(wbatch[w])) : r.last_attempt = run]_vars
    /\ []((/\ script = "map9"
           /\ mainpc = "wait"
           /\ pending = <<>>
           /\ \A w \in Workers : pc[w] = "idle") =>
              UnitsReported = Len(locations))

\* The attempts counter of a location in a table; 0 when it has no entry.
AttemptsIn(st, location_string) ==
    IF \E r \in st : r.location_string = location_string
    THEN (CHOOSE r \in st : r.location_string = location_string).attempts
    ELSE 0

\* C24, as stated: the attempts counter always equals the number of times the
\* geocoder was called for the location.  So every call counts: whenever a
\* worker that has called the geocoder for a location leaves that call
\* behind, the counter of the location has grown by one.
C24_AttemptsEqualCalls ==
    [][script = "map9" =>
         \A w \in Workers :
             (pc[w] = "write" /\ pc'[w] # "write") =>
                 AttemptsIn(store', Head(wbatch[w]))
                     = AttemptsIn(store, Head(wbatch[w])) + 1]_vars

\* C24, amended: the attempts counter counts the geocoding attempts recorded
\* for the location.  The write of an attempt sets it to 1 when the location
\* has no entry and adds exactly one when it has; each write records one call
\* of the geocoder; nothing else changes the counter, in this run or a later
\* one.
C24_AttemptsCountRecorded ==
    [][script = "map9" =>
         /\ \A w \in Workers :
                (pc[w] = "write" /\ pc'[w] = "put") =>
                    AttemptsIn(store', Head(wbatch[w]))
                        = AttemptsIn(store, Head(wbatch[w])) + 1
         /\ \A w \in Workers : (pc'[w] = "write" /\ pc[w] # "write") => pc[w] = "geocode"
         /\ \A l \in Range(locations) :
                AttemptsIn(store', l) # AttemptsIn(store, l) =>
                    \E w \in Workers :
                        pc[w] = "write" /\ pc'[w] = "put" /\ Head(wbatch[w]) = l]_vars

\* In the run after a kill a location that had failed was attempted again:
\* its counter is 2, next to a location attempted once.
C24_Witness ==
    /\ script = "map9"
    /\ run = 2
    /\ \E r \in store : r.attempts = 2 /\ r.location_string \in runRequests
    /\ \E r \in store : r.attempts = 1

\* C25: a retry of a location that failed before updates its entry in place:
\* the entry is never deleted, and the creation timestamp, which the new
\* attempt does not set, keeps the value the first attempt gave it.
C25_UpdatedInPlace ==
    [][script = "map9" =>
         \A r \in store :
             \E r2 \in store' :
                 /\ r2.location_hash = r.location_hash
                 /\ r2.timestamp = r.timestamp]_vars

\* C26: geocode of map8 retries with backoff on exception: when the geocoder
\* underneath raises GeocoderTimedOut, GeocoderUnavailable or a requests
\* RequestException the call is tried again, up to 5 tries in total, before
\* it gives up.  So a call that gave up on such an exception made 5 tries.
C26_BackoffFiveTries ==
    script = "map8" =>
        \A k \in DOMAIN results8 :
            BackoffRetries(results8[k].last) => results8[k].tries = max_tries

\* C27: successful cache entries are immutable: once an entry records a
\* successful geocode of a location, no later step of any worker or of any
\* later run changes its coordinates, its success flag or its attempts
\* count; in the table of map10/map11 the first coordinates written for a
\* query stay and a later write for the same query is ignored.
C27_SuccessImmutable ==
    [][/\ \A r \in store :
            r.success =>
                \E r2 \in store' :
                    /\ r2.location_hash = r.location_hash
                    /\ r2.latitude = r.latitude
                    /\ r2.longitude = r.longitude
                    /\ r2.success
                    /\ r2.attempts = r.attempts
       /\ \A r \in cache11 : r \in cache11']_vars

\* Two tasks of map10 asked for the same text and both got a position; the
\* second answer, with other coordinates, came when the first was stored.
C27_Witness ==
    /\ script = "map10"
    /\ \E i, j \in Tasks :
         /\ i # j
         /\ queries[i] = queries[j]
         /\ wrote[i]
         /\ wrote[j]
         /\ tresult[i] # tresult[j]
         /\ \E r \in cache11 :
                r.location_query = queries[i] /\ <<r.latitude, r.longitude>> = tresult[i]

\* C28: approximate_missing_locations never changes a record that already
\* has both latitude and longitude: the records that came with coordinates
\* are the same after the pass as before it, and only records with a missing
\* coordinate are written.
C28_MatchedUntouched ==
    script = "approx" =>
        /\ Len(crime_data) = Len(original)
        /\ \A i \in DOMAIN crime_data :
               ~Missing(original, i) => crime_data[i] = original[i]

\* The function has returned: it wrote a record, and a record of the same
\* district that came with coordinates other than the mean written is as it
\* was.
C28_Witness ==
    /\ script = "approx"
    /\ mainpc = "done"
    /\ \E i, j \in DOMAIN crime_data :
         /\ Missing(original, i)
         /\ ~Missing(crime_data, i)
         /\ ~Missing(original, j)
         /\ original[j].State = original[i].State
         /\ original[j].District = original[i].District
         /\ crime_data[j].Latitude # crime_data[i].Latitude

\* The frame with its rows in the order p: row k is row p[k] of the frame.
Reordered(frame, p) == [k \in DOMAIN frame |-> frame[p[k]]]

\* C29: the coordinates approximate_missing_locations gives a record do not
\* depend on the order of the rows: on any reordering of the dataset each
\* record gets the coordinates it gets on the dataset itself.
C29_OrderIndependent ==
    (script = "approx" /\ mainpc = "done") =>
        \A p \in Perms(DOMAIN original) :
            LET other == approximate_missing_locations(Reordered(original, p))
            IN \A k \in DOMAIN original : other[k] = crime_data[p[k]]

\* C30: approximate_missing_locations is idempotent: applied to its own
\* output it changes no record; after one pass every record whose state has
\* a record with coordinates has coordinates, and every other record is
\* still without.
C30_Idempotent ==
    (script = "approx" /\ mainpc = "done") =>
        /\ approximate_missing_locations(crime_data) = crime_data
        /\ \A i \in DOMAIN crime_data :
               Missing(crime_data, i) <=> ResolvedOfState(original, i) = {}

\* The function has returned a frame in which it filled a record from a
\* district mean and one from a state mean, and left one without coordinates.
C30_Witness ==
    /\ script = "approx"
    /\ mainpc = "done"
    /\ \E i, j, k \in DOMAIN crime_data :
         /\ Missing(original, i) /\ ~Missing(crime_data, i)
         /\ ResolvedOfDistrict(original, i) # {}
         /\ Missing(original, j) /\ ~Missing(crime_data, j)
         /\ ResolvedOfDistrict(original, j) = {}
         /\ Missing(crime_data, k)

=============================================================================
